---- MODULE Spec2Model ----
(***************************************************************************)
(* Model of Flipper's CertificateProvider, in its two variants:            *)
(*   "server": desktop/app/src/server/utils/CertificateProvider.tsx        *)
(*   "utils" : desktop/app/src/utils/CertificateProvider.tsx               *)
(* The variable impl selects the variant; where the two files agree the    *)
(* definitions do not read it.                                             *)
(*                                                                         *)
(* The specifications share the variables:                                 *)
(*   SpecAuth    the authority manager working on the provisioning         *)
(*               directory, with time passing, manual deletion and         *)
(*               restarts of the provider;                                 *)
(*   SpecCheck   checkCertIsValid on certificates around the guard window; *)
(*   SpecResolve the fan-out of device identity resolution, one step per   *)
(*               settled per-device check, in every completion order;      *)
(*   Spec        one certificate exchange, processCertificateSigningRequest*)
(*               from construction of the provider to its result.          *)
(***************************************************************************)
EXTENDS Integers, Sequences, FiniteSets, TLC

VARIABLES
  impl,              \* which of the two source files runs
  quick,             \* how the toolkit's "x509 -checkend" call behaves
  now,               \* Date.now(), in seconds
  ext,               \* the number of external changes so far (time passing, deletions)
  dir,               \* the provisioning directory ~/.flipper/certs
  certificateSetup,  \* this.certificateSetup: none / pending / resolved / rejected
  last,              \* the call record of the last authority-manager operation
  rOs,               \* device resolution: "Android" or "iOS"
  rCsr,              \* the CSR presented to the resolution
  rPath,             \* deviceCsrFilePath, the app's container directory
  rDevices,          \* the devices (targets) the enumeration returns, in order
  rDone,             \* the outcome of each per-device check that has settled
  rResult,           \* the state and outcome of the resolution call
  medium,            \* exchange: the medium, FS_ACCESS / WWW / NONE
  subject,           \* the subject the toolkit dumps for the presented CSR
  directWriteOK,     \* whether fs.writeFile into appDirectory succeeds
  opensslInstalled,  \* whether the toolkit is installed on the desktop
  pushOK,            \* whether a push to the device (adb, idb) succeeds
  adb,               \* the ADB client: ready, failing (getAdbClient will
                     \* reject, nothing recorded yet) or failed (recorded)
  pc,                \* the step processCertificateSigningRequest is at
  io,                \* what the exchange has read, staged, written and pushed
  outcome            \* the error or the deviceId the exchange ended with

authVars == <<impl, quick, now, ext, dir, certificateSetup, last>>

resVars == <<rOs, rCsr, rPath, rDevices, rDone, rResult>>

\* the inputs of an exchange, which no step changes
exArgs == <<medium, subject, directWriteOK, opensslInstalled, pushOK>>

\* the inputs and the environment of an exchange
exInputs == <<exArgs, adb>>

exVars == <<exInputs, pc, io, outcome>>

vars == <<authVars, resVars, exVars>>

Impls == {"server", "utils"}

(***************************************************************************)
(* Time.  The code compares milliseconds, the certificates carry seconds;  *)
(* the model counts seconds throughout.                                    *)
(***************************************************************************)
minCertExpiryWindowSeconds == 24 * 60 * 60

\* openssl's default validity (30 days) of "req -x509" and "x509 -req":
\* neither generateCertificateAuthority nor generateServerCertificate passes "days".
certValiditySeconds == 30 * 24 * 60 * 60

\* Bounds of the model.
MaxExternal == 1
NumKeyIds == 7
MaxSerial == 2
ConservativeMargin == 1

\* The amounts by which time passes in one step. They bring a certificate
\* generated just before to one second outside the guard window, onto its
\* boundary, and to its end date.
TickSteps ==
  {certValiditySeconds - minCertExpiryWindowSeconds - 1,
   certValiditySeconds - minCertExpiryWindowSeconds,
   certValiditySeconds}

(***************************************************************************)
(* The provisioning directory.  A key file holds a key id (0: no file); a  *)
(* certificate file holds the key it certifies, the key that signed it and *)
(* its end date (key 0: no file).                                          *)
(***************************************************************************)
NoCert == [key |-> 0, issuer |-> 0, exp |-> 0]

EmptyDir ==
  [hasDir |-> FALSE, caKey |-> 0, caCert |-> NoCert, serverKey |-> 0,
   serverCsr |-> 0, serverSrl |-> 0, serverCert |-> NoCert]

\* fs.pathExists of a key file, and of a certificate file
pathExists(f) == f # 0

certExists(c) == c.key # 0

UsedKeys(d) ==
  {d.caKey, d.caCert.key, d.caCert.issuer, d.serverKey, d.serverCsr,
   d.serverCert.key, d.serverCert.issuer}

\* genrsa: a key unlike every key the directory refers to.
FreshKey(d) ==
  CHOOSE k \in 1..NumKeyIds :
    /\ k \notin UsedKeys(d)
    /\ \A j \in 1..(k - 1) : j \in UsedKeys(d)

(***************************************************************************)
(* The toolkit (openssl), by its contract.                                 *)
(***************************************************************************)
QuickModes == {"exact", "conservative", "missesExpired"}

\* openssl x509 -checkend: TRUE when the call fails ("will expire").
\*   exact          fails iff the end date is within the window;
\*   conservative   also fails for a certificate just outside the window;
\*   missesExpired  the behaviour the comment in checkCertIsValid assumes:
\*                  a certificate that has already expired is not reported.
checkendFails(q, cert, t) ==
  CASE q = "exact" -> cert.exp <= t + minCertExpiryWindowSeconds
    [] q = "conservative" ->
         cert.exp <= t + minCertExpiryWindowSeconds + ConservativeMargin
    [] OTHER -> t < cert.exp /\ cert.exp <= t + minCertExpiryWindowSeconds

\* faulty variant: verify looks at the issuer only
opensslVerifyIssuerOnly(d, t) == d.serverCert.issuer = d.caCert.key

\* openssl verify -CAfile ca.crt server.crt prints "...: OK": the certificate
\* was issued by the CA certificate and neither has expired.
opensslVerifyOK(d, t) ==
  /\ d.serverCert.issuer = d.caCert.key
  /\ t < d.serverCert.exp
  /\ t < d.caCert.exp

\* A run of an authority operation: the directory so far, whether it is still
\* succeeding, the number of generating toolkit calls made, and what it has
\* started to regenerate.
StartRun(d) ==
  [d |-> d, ok |-> TRUE, calls |-> 0, caRegen |-> FALSE, srvRegen |-> FALSE]

\* One generating toolkit call: it throws when it is the failAt-th of the run
\* (toolkit broken, disk unwritable), else the directory becomes d2.
ToolkitCall(r, failAt, d2) ==
  IF ~r.ok THEN r
  ELSE IF r.calls + 1 = failAt
    THEN [r EXCEPT !.ok = FALSE, !.calls = @ + 1]
    ELSE [r EXCEPT !.d = d2, !.calls = @ + 1]

NextSerial(s) == IF s = 0 THEN 1 ELSE (s % MaxSerial) + 1

(***************************************************************************)
(* checkCertIsValid                                                        *)
(***************************************************************************)
\* the end date parsed from "x509 -enddate"
expiryDate(cert) == cert.exp

preciseCheck(cert, t) ==
  IF expiryDate(cert) <= t + minCertExpiryWindowSeconds
    THEN "Expiring" ELSE "ok"

\* server variant: the end date is parsed only after checkend has failed.
checkCertIsValidServer(q, cert, t) ==
  IF ~certExists(cert) THEN "NotFound"
  ELSE IF ~checkendFails(q, cert, t) THEN "ok"
  ELSE preciseCheck(cert, t)

\* utils variant: a failed checkend is rethrown, the end date is parsed after
\* a successful one.
checkCertIsValidUtils(q, cert, t) ==
  IF ~certExists(cert) THEN "NotFound"
  ELSE IF checkendFails(q, cert, t) THEN "QuickCheckFailed"
  ELSE preciseCheck(cert, t)

checkCertIsValid(i, q, cert, t) ==
  IF i = "server" THEN checkCertIsValidServer(q, cert, t)
  ELSE checkCertIsValidUtils(q, cert, t)

(***************************************************************************)
(* generateCertificateAuthority, ensureCertificateAuthorityExists          *)
(***************************************************************************)
selfSigned(d, t) ==
  [key |-> d.caKey, issuer |-> d.caKey, exp |-> t + certValiditySeconds]

generateCertificateAuthority(r, t, failAt) ==
  LET r0 == [r EXCEPT !.caRegen = TRUE, !.d.hasDir = TRUE]
      r1 == ToolkitCall(r0, failAt, [r0.d EXCEPT !.caKey = FreshKey(r0.d)])
  IN ToolkitCall(r1, failAt, [r1.d EXCEPT !.caCert = selfSigned(r1.d, t)])

\* faulty variant: the CA is generated on every call
ensureCAAlwaysGenerates(r, i, q, t, failAt) ==
  generateCertificateAuthority(r, t, failAt)

ensureCertificateAuthorityExists(r, i, q, t, failAt) ==
  IF ~r.ok THEN r
  ELSE IF ~pathExists(r.d.caKey)
    THEN generateCertificateAuthority(r, t, failAt)
  ELSE IF checkCertIsValid(i, q, r.d.caCert, t) = "ok" THEN r
  ELSE generateCertificateAuthority(r, t, failAt)

(***************************************************************************)
(* generateServerCertificate, ensureServerCertExists                       *)
(***************************************************************************)
\* faulty variant: the toolkit signs with whatever CA key it is given
canSignAlways(d) == TRUE

\* openssl x509 -req -CA ca.crt -CAkey ca.key: refuses a CA key that does not
\* belong to the CA certificate, or a missing input.
canSign(d) ==
  /\ pathExists(d.caKey) /\ certExists(d.caCert) /\ pathExists(d.serverCsr)
  /\ d.caCert.key = d.caKey

signedServerCert(d, t) ==
  [key |-> d.serverCsr, issuer |-> d.caCert.key, exp |-> t + certValiditySeconds]

generateServerCertificate(r, i, q, t, failAt) ==
  LET r0 == ensureCertificateAuthorityExists(
              [r EXCEPT !.srvRegen = TRUE], i, q, t, failAt)
      r1 == ToolkitCall(r0, failAt, [r0.d EXCEPT !.serverKey = FreshKey(r0.d)])
      r2 == ToolkitCall(r1, failAt, [r1.d EXCEPT !.serverCsr = r1.d.serverKey])
  IN IF r2.ok /\ ~canSign(r2.d) THEN [r2 EXCEPT !.ok = FALSE]
     ELSE ToolkitCall(r2, failAt,
            [r2.d EXCEPT !.serverCert = signedServerCert(r2.d, t),
                         !.serverSrl = NextSerial(r2.d.serverSrl)])

allExist(d) ==
  pathExists(d.serverKey) /\ certExists(d.serverCert) /\ certExists(d.caCert)

\* faulty variant: the chain to the CA is not verified
ensureServerCertExistsNoVerify(d, i, q, t, failAt) ==
  IF ~allExist(d) THEN generateServerCertificate(StartRun(d), i, q, t, failAt)
  ELSE IF checkCertIsValid(i, q, d.serverCert, t) = "ok" THEN StartRun(d)
  ELSE generateServerCertificate(StartRun(d), i, q, t, failAt)

ensureServerCertExists(d, i, q, t, failAt) ==
  IF ~allExist(d) THEN generateServerCertificate(StartRun(d), i, q, t, failAt)
  ELSE IF checkCertIsValid(i, q, d.serverCert, t) = "ok" /\ opensslVerifyOK(d, t)
    THEN StartRun(d)
  ELSE generateServerCertificate(StartRun(d), i, q, t, failAt)

\* ensureServerCertExists without the toolkit: every toolkit call throws, so
\* no check passes and the first generating call ends the run.
toolkitMissing(d, i, q, t) ==
  generateCertificateAuthority([StartRun(d) EXCEPT !.srvRegen = TRUE], t, 1)

(***************************************************************************)
(* The authority manager as a state machine.                               *)
(***************************************************************************)
\* The state in which ensureServerCertExists finds the directory.
SetupCase(d, t) ==
  IF ~allExist(d) THEN "missing"
  ELSE IF d.serverCert.exp <= t THEN "expired"
  ELSE IF d.serverCert.exp <= t + minCertExpiryWindowSeconds THEN "expiring"
  ELSE IF ~opensslVerifyOK(d, t) THEN "unverified"
  ELSE "fine"

\* The state in which checkCertIsValid finds a certificate file.
CertCase(cert, q, t) ==
  IF ~certExists(cert) THEN "absent"
  ELSE IF cert.exp <= t + minCertExpiryWindowSeconds THEN "expiring"
  ELSE IF checkendFails(q, cert, t) THEN "quickFailsOnly"
  ELSE "fine"

\* The state in which ensureCertificateAuthorityExists finds the CA.
CaCase(d, q, t) ==
  IF ~pathExists(d.caKey) THEN "noKey" ELSE CertCase(d.caCert, q, t)

\* The call record of an operation: what it was, the case it found, whether
\* it succeeded, what it started to regenerate, and (second) whether it
\* followed a successful call of the same operation with nothing in between.
\* No SecureServerConfig.
NoConfig ==
  [key |-> 0, cert |-> NoCert, ca |-> NoCert,
   requestCert |-> FALSE, rejectUnauthorized |-> FALSE]

NoCall ==
  [op |-> "none", ok |-> FALSE, caRegen |-> FALSE, srvRegen |-> FALSE,
   case |-> "none", second |-> FALSE, result |-> "none", config |-> NoConfig]

CallRecord(op, r, case, second) ==
  [op |-> op, ok |-> r.ok, caRegen |-> r.caRegen, srvRegen |-> r.srvRegen,
   case |-> case, second |-> second, result |-> "none", config |-> NoConfig]

FailPoints == 0..5

\* No device resolution is under way.
NoResult == [state |-> "idle", id |-> 0, error |-> "none"]

ResIdle ==
  /\ rOs = "Android"
  /\ rCsr = <<>>
  /\ rPath = <<>>
  /\ rDevices = <<>>
  /\ rDone = <<>>
  /\ rResult = NoResult

\* What an exchange has done so far: nothing.
\* pushes: the files a device has acknowledged; inFlight: the pushes
\* started that have not settled; lost: the pushes that failed with nobody
\* waiting for them; absentHandle: a bridge operation was invoked on an
\* undefined ADB client.
\* notified: the "OpenSSL not installed" error was emitted; tmpRoot: the
\* exchange's temporary root folder was created; csrFiles: the transient
\* files holding the CSR that have not been deleted.
NoIO ==
  [notified |-> FALSE, tmpRoot |-> FALSE, csrFiles |-> {},
   caRead |-> FALSE, signed |-> FALSE, staged |-> {}, written |-> {},
   listed |-> FALSE, pulled |-> FALSE, pushes |-> {},
   inFlight |-> {}, lost |-> {}, absentHandle |-> FALSE,
   zipped |-> FALSE, uploaded |-> FALSE]

\* The locals and the result of an exchange: the CA certificate read, the
\* client certificate signed, the application name extracted, the deviceId,
\* and the error it is rejected with, at which step.
NoOutcome ==
  [err |-> "none", at |-> "none", deviceId |-> <<>>, caCert |-> NoCert,
   clientCert |-> NoCert, appName |-> <<>>]

\* No exchange is under way.
ExIdle ==
  /\ medium = "FS_ACCESS"
  /\ subject = [hasCN |-> FALSE, cn |-> <<>>, rest |-> <<>>]
  /\ directWriteOK = FALSE
  /\ opensslInstalled = TRUE
  /\ pushOK = TRUE
  /\ adb = "ready"
  /\ pc = "idle"
  /\ io = NoIO
  /\ outcome = NoOutcome

AuthInit ==
  /\ impl \in Impls
  /\ quick \in QuickModes
  /\ now = 0
  /\ ext = 0
  /\ dir = EmptyDir
  /\ certificateSetup = "none"
  /\ last = NoCall
  /\ ResIdle
  /\ ExIdle

\* new CertificateProvider(...): the constructor starts ensureServerCertExists.
Construct ==
  /\ certificateSetup # "pending"
  /\ certificateSetup' = "pending"
  /\ last' = NoCall
  /\ UNCHANGED <<impl, quick, now, ext, dir, resVars, exVars>>

\* ensureServerCertExists runs to its end and settles this.certificateSetup.
SetupRun ==
  /\ certificateSetup = "pending"
  /\ \E failAt \in FailPoints :
       LET r == IF opensslInstalled
                  THEN ensureServerCertExists(dir, impl, quick, now, failAt)
                  ELSE toolkitMissing(dir, impl, quick, now)
       IN /\ dir' = r.d
          /\ certificateSetup' = IF r.ok THEN "resolved" ELSE "rejected"
          /\ last' = CallRecord("ensureServerCertExists", r, SetupCase(dir, now),
                                  FALSE)
  /\ UNCHANGED <<impl, quick, now, ext, resVars, exVars>>

\* A direct call of the public ensureCertificateAuthorityExists.
EnsureCACall ==
  /\ certificateSetup # "pending"
  /\ \E failAt \in FailPoints :
       LET r == ensureCertificateAuthorityExists(StartRun(dir), impl, quick,
                                                 now, failAt)
       IN /\ dir' = r.d
          /\ last' = CallRecord("ensureCertificateAuthorityExists", r,
                       CaCase(dir, quick, now),
                       last.op = "ensureCertificateAuthorityExists" /\ last.ok)
  /\ UNCHANGED <<impl, quick, now, ext, certificateSetup, resVars, exVars>>

\* faulty variant: the files are read whatever became of the setup
loadSecureServerConfigNoAwait(setup, d) ==
  IF ~(pathExists(d.serverKey) /\ certExists(d.serverCert)
         /\ certExists(d.caCert))
    THEN [ok |-> FALSE, config |-> NoConfig]
    ELSE [ok |-> TRUE,
          config |-> [key |-> d.serverKey, cert |-> d.serverCert,
                      ca |-> d.caCert, requestCert |-> TRUE,
                      rejectUnauthorized |-> TRUE]]

\* loadSecureServerConfig once this.certificateSetup (setup) has settled: it
\* rethrows a rejected setup, and a file it cannot read.
loadSecureServerConfig(setup, d) ==
  IF setup # "resolved" THEN [ok |-> FALSE, config |-> NoConfig]
  ELSE IF ~(pathExists(d.serverKey) /\ certExists(d.serverCert)
              /\ certExists(d.caCert))
    THEN [ok |-> FALSE, config |-> NoConfig]
    ELSE [ok |-> TRUE,
          config |-> [key |-> d.serverKey, cert |-> d.serverCert,
                      ca |-> d.caCert, requestCert |-> TRUE,
                      rejectUnauthorized |-> TRUE]]

\* A call of loadSecureServerConfig, which waits for the setup to settle.
LoadConfig ==
  /\ certificateSetup \in {"resolved", "rejected"}
  /\ last' = [NoCall EXCEPT
                !.op = "loadSecureServerConfig",
                !.ok = loadSecureServerConfig(certificateSetup, dir).ok,
                !.config = loadSecureServerConfig(certificateSetup, dir).config]
  /\ UNCHANGED <<impl, quick, now, ext, dir, certificateSetup, resVars, exVars>>

\* External: time passes.
Tick ==
  /\ certificateSetup # "pending"
  /\ ext < MaxExternal
  /\ \E dt \in TickSteps : now' = now + dt
  /\ ext' = ext + 1
  /\ last' = NoCall
  /\ UNCHANGED <<impl, quick, dir, certificateSetup, resVars, exVars>>

\* External: a file of the directory is deleted by hand.
DeleteFile ==
  /\ certificateSetup # "pending"
  /\ \E f \in {"caKey", "caCert", "serverKey", "serverCert"} :
       /\ IF f \in {"caCert", "serverCert"} THEN certExists(dir[f])
          ELSE pathExists(dir[f])
       /\ dir' = [dir EXCEPT ![f] = IF f \in {"caCert", "serverCert"}
                                      THEN NoCert ELSE 0]
  /\ ext < MaxExternal
  /\ ext' = ext + 1
  /\ last' = NoCall
  /\ UNCHANGED <<impl, quick, now, certificateSetup, resVars, exVars>>

AuthNext ==
  \/ Construct
  \/ SetupRun
  \/ EnsureCACall
  \/ Tick
  \/ DeleteFile
  \/ LoadConfig

SpecAuth == AuthInit /\ [][AuthNext]_vars

\* The authority manager as its setup runs alone drive it: providers are
\* constructed one after another on a directory that time and manual
\* deletion invalidate in between.
RunsNext ==
  \/ Construct
  \/ SetupRun
  \/ Tick
  \/ DeleteFile

SpecRuns == AuthInit /\ [][RunsNext]_vars

\* The authority manager with a toolkit whose checkend call is exact.
AuthInitExact == AuthInit /\ quick = "exact"

SpecAuthExact == AuthInitExact /\ [][AuthNext]_vars

(***************************************************************************)
(* checkCertIsValid as a function of the certificate file, the clock and   *)
(* the toolkit: the file under check is ca.crt of a directory that holds a *)
(* CA key, and ensureCertificateAuthorityExists is the caller.             *)
(***************************************************************************)
\* End dates around the guard window of the clock value t.
CheckExpiries(t) ==
  {t - 1, t, t + 1,
   t + minCertExpiryWindowSeconds - 1, t + minCertExpiryWindowSeconds,
   t + minCertExpiryWindowSeconds + 1, t + minCertExpiryWindowSeconds + 2,
   t + certValiditySeconds}

CheckInit ==
  /\ impl \in Impls
  /\ quick \in QuickModes
  /\ now \in {certValiditySeconds, 2 * certValiditySeconds}
  /\ ext = 0
  /\ \E c \in {NoCert} \cup
              {[key |-> 1, issuer |-> 1, exp |-> e] : e \in CheckExpiries(now)} :
       dir = [EmptyDir EXCEPT !.hasDir = TRUE, !.caKey = 1, !.caCert = c]
  /\ certificateSetup = "none"
  /\ last = NoCall
  /\ ResIdle
  /\ ExIdle

CheckCall ==
  /\ last.op = "none"
  /\ last' = [NoCall EXCEPT
                !.op = "checkCertIsValid",
                !.case = CertCase(dir.caCert, quick, now),
                !.result = checkCertIsValid(impl, quick, dir.caCert, now),
                !.ok = (checkCertIsValid(impl, quick, dir.caCert, now) = "ok")]
  /\ UNCHANGED <<impl, quick, now, ext, dir, certificateSetup, resVars, exVars>>

CheckNext ==
  \/ CheckCall
  \/ EnsureCACall

SpecCheck == CheckInit /\ [][CheckNext]_vars

(***************************************************************************)
(* Claims about the authority manager.                                     *)
(***************************************************************************)
SetupDone == last.op = "ensureServerCertExists"

NewServerCert ==
  /\ certExists(dir.serverCert)
  /\ dir.serverCert.key = dir.serverKey
  /\ dir.serverCert.exp = now + certValiditySeconds

\* C4: when ensureServerCertExists finds server.key, server.crt and ca.crt,
\* the server certificate outside the guard window, but openssl verify does
\* not accept it against ca.crt, it regenerates the server certificate, and
\* when it succeeds the new server.crt is signed by the CA on disk.
C4_ChainFailureRegenerates ==
  (SetupDone /\ last.case = "unverified") =>
    /\ last.srvRegen
    /\ last.ok => /\ NewServerCert
                  /\ dir.serverCert.issuer = dir.caCert.key
                  /\ dir.caKey = dir.caCert.key

C4_Witness ==
  /\ SetupDone /\ last.case = "unverified" /\ last.ok
  /\ dir.serverCert.issuer = dir.caCert.key

C6_Original ==
  last.op = "checkCertIsValid" =>
    /\ last.case = "expiring" => ~last.ok
    /\ last.case = "absent" => last.result = "NotFound"

\* C6 holds of the utils variant, which parses the end date after every
\* successful checkend.
C6_UtilsVariant == impl = "utils" => C6_Original

\* C7 as claimed: when checkend fails but the parsed end date is later than
\* now + 86400 s, checkCertIsValid succeeds, and the check triggers no
\* regeneration.
C7_Original ==
  /\ (last.op = "checkCertIsValid" /\ last.case = "quickFailsOnly") => last.ok
  /\ (last.op = "ensureCertificateAuthorityExists"
        /\ last.case = "quickFailsOnly") => ~last.caRegen

\* C7 holds of the server variant, which parses the end date after a failed
\* checkend.
C7_ServerVariant == impl = "server" => C7_Original

\* C9: a call of ensureCertificateAuthorityExists that follows a successful
\* one, with no time passing and no deletion in between, regenerates nothing
\* and leaves ca.key and ca.crt as they are.
C9_EnsureCAIdempotent ==
  [][(/\ last.op = "ensureCertificateAuthorityExists" /\ last.ok
      /\ last'.op = "ensureCertificateAuthorityExists")
       => (/\ ~last'.caRegen /\ last'.ok
           /\ dir'.caKey = dir.caKey /\ dir'.caCert = dir.caCert)]_vars

C9_Witness ==
  /\ last.op = "ensureCertificateAuthorityExists"
  /\ last.second /\ last.ok /\ ~last.caRegen
  /\ pathExists(dir.caKey) /\ certExists(dir.caCert)

(***************************************************************************)
(* Device identity resolution.                                             *)
(*                                                                         *)
(* A string is a sequence of characters; "CR", "LF" and "SP" stand for     *)
(* carriage return, line feed and space.  A path is the sequence of the    *)
(* segments of an absolute directory path ("/a/b/" is <<"a", "b">>).       *)
(***************************************************************************)
MaxDevices == 3

IsSpace(c) == c \in {"CR", "LF", "SP"}

RECURSIVE trimStart(_)
trimStart(s) ==
  IF s # <<>> /\ IsSpace(Head(s)) THEN trimStart(Tail(s)) ELSE s

RECURSIVE trimEnd(_)
trimEnd(s) ==
  IF s # <<>> /\ IsSpace(s[Len(s)])
    THEN trimEnd(SubSeq(s, 1, Len(s) - 1)) ELSE s

IsNotCR(c) == c # "CR"

\* faulty variant: the string is only trimmed
santitizeStringTrimOnly(s) == trimEnd(trimStart(s))

\* csrString.replace(/\r/g, '').trim()
santitizeString(s) == trimEnd(trimStart(SelectSeq(s, IsNotCR)))

\* faulty variant: no path is taken to name a simulator
simulatorIdOfNever(path) == <<>>

\* /\/Devices\/([^/]+)\//.exec(path): the segment after the first "Devices"
\* segment that has one (<<>>: no match).
simulatorIdOf(path) ==
  LET hits == {i \in 1..(Len(path) - 1) : path[i] = "Devices"}
  IN IF hits = {} THEN <<>>
     ELSE <<path[(CHOOSE i \in hits : \A j \in hits : i <= j) + 1]>>

EndsWithApplication(seg) == seg \in {"Application", "MyApplication"}

\* /Application\/[^/]+\/(.*)/ on the segments of a path: whether it matches,
\* and the segments after the application id. The id must be followed by a
\* slash: by the trailing slash of a directory path (isDir), by a further
\* segment of a file path.
appPatternHits(path, isDir) ==
  {i \in 1..(Len(path) - (IF isDir THEN 1 ELSE 2)) :
     EndsWithApplication(path[i])}

matchesAppContainer(path, isDir) == appPatternHits(path, isDir) # {}

getRelativePathInAppContainer(path, isDir) ==
  LET i == CHOOSE k \in appPatternHits(path, isDir) :
             \A j \in appPatternHits(path, isDir) : k <= j
  IN SubSeq(path, i + 2, Len(path))

SimPath == <<"Devices", "SIM1", "data", "Application", "APP", "Documents">>
DevicePath == <<"private", "MyApplication", "APP", "Documents">>
PlainPath == <<"tmp", "sonar">>
Paths == {SimPath, DevicePath, PlainPath}

\* What a device holds as app.csr, and how pulling it ends:
\*   ok        the pull delivers the file
\*   error     the pull throws
\*   conflict  (iOS) more than one file appears in the temporary directory
\*   empty     (iOS) no file appears in it
CsrA == <<"a", "b">>
CsrTexts == {CsrA, <<"a", "CR", "b", "LF">>, <<"b">>}
PresentedCsrs == {CsrA, <<"SP", "a", "b", "CR">>}

DeviceKinds(os) ==
  {[pull |-> "ok", csr |-> c] : c \in CsrTexts}
    \cup {[pull |-> k, csr |-> CsrA] :
            k \in IF os = "iOS" THEN {"error", "conflict", "empty"}
                  ELSE {"error"}}

\* The outcome of one per-device check: a match flag, or the error thrown.
CheckResult(m, e) == [isMatch |-> m, error |-> e]

\* faulty variant: the pulled CSR is compared as it is
androidDeviceHasMatchingCSRRaw(dev, csr) ==
  IF dev.pull # "ok" THEN CheckResult(FALSE, "PullError")
  ELSE CheckResult(dev.csr = santitizeString(csr), "none")

androidDeviceHasMatchingCSR(dev, csr) ==
  IF dev.pull # "ok" THEN CheckResult(FALSE, "PullError")
  ELSE CheckResult(santitizeString(dev.csr) = santitizeString(csr), "none")

iOSDeviceHasMatchingCSR(dev, path, csr) ==
  IF ~matchesAppContainer(path \o <<"app.csr">>, FALSE)
    THEN CheckResult(FALSE, "UnexpectedContainerPath")
  ELSE IF dev.pull = "error" THEN CheckResult(FALSE, "PullError")
  ELSE IF dev.pull = "conflict" THEN CheckResult(FALSE, "ConflictInStaging")
  ELSE IF dev.pull = "empty" THEN CheckResult(FALSE, "NoCsrRetrieved")
  ELSE CheckResult(santitizeString(dev.csr) = santitizeString(csr), "none")

deviceCheck(os, dev, path, csr) ==
  IF os = "Android" THEN androidDeviceHasMatchingCSR(dev, csr)
  ELSE iOSDeviceHasMatchingCSR(dev, path, csr)

\* faulty variant: no per-device check is wrapped in try/catch
checkIsCaughtNever(os) == FALSE

\* Whether the map callback catches the error of its check: the Android
\* callback does (try/catch, .catch), the iOS callback does not.
checkIsCaught(os) == os = "Android"

Resolved(id) == [state |-> "resolved", id |-> id, error |-> "none"]
Rejected(e) == [state |-> "rejected", id |-> 0, error |-> e]

MinOf(S) == CHOOSE i \in S : \A j \in S : i <= j

\* faulty variant: the last matching device is returned
decideLastMatch(os, done) ==
  LET matchingIds == {i \in DOMAIN done : done[i].isMatch}
      errored == {i \in DOMAIN done : done[i].error # "none"}
  IN IF matchingIds = {}
       THEN IF os = "Android" /\ errored # {}
              THEN Rejected(done[MinOf(errored)].error)
              ELSE Rejected("NoMatchingDevice")
       ELSE Resolved(CHOOSE i \in matchingIds : \A j \in matchingIds : i >= j)

\* The decision after Promise.all: done[i] is the outcome of device i, whose
\* id is its place in the enumeration.
decide(os, done) ==
  LET matchingIds == {i \in DOMAIN done : done[i].isMatch}
      errored == {i \in DOMAIN done : done[i].error # "none"}
  IN IF matchingIds = {}
       THEN IF os = "Android" /\ errored # {}
              THEN Rejected(done[MinOf(errored)].error)
              ELSE Rejected("NoMatchingDevice")
       ELSE Resolved(MinOf(matchingIds))

Pending == [isMatch |-> FALSE, error |-> "pending"]

ResolveInit ==
  /\ impl \in Impls
  /\ quick = "exact"
  /\ now = 0
  /\ ext = 0
  /\ dir = EmptyDir
  /\ certificateSetup = "none"
  /\ last = NoCall
  /\ rOs \in {"Android", "iOS"}
  /\ rCsr \in PresentedCsrs
  /\ rPath \in IF rOs = "iOS" THEN Paths ELSE {DevicePath}
  /\ \E n \in 0..MaxDevices : rDevices \in [1..n -> DeviceKinds(rOs)]
  /\ rDone = <<>>
  /\ rResult = NoResult
  /\ ExIdle

\* getTargetAndroidDeviceId / getTargetiOSDeviceId up to the fan-out: the
\* simulator id is returned at once; an empty enumeration fails.
RStart ==
  /\ rResult.state = "idle"
  /\ IF rOs = "iOS" /\ simulatorIdOf(rPath) # <<>>
       THEN rResult' = [state |-> "resolved", id |-> simulatorIdOf(rPath)[1],
                        error |-> "none"]
            /\ rDone' = rDone
       ELSE IF Len(rDevices) = 0
         THEN rResult' = Rejected("NoDevicesFound") /\ rDone' = rDone
         ELSE rResult' = [NoResult EXCEPT !.state = "running"]
              /\ rDone' = [i \in 1..Len(rDevices) |-> Pending]
  /\ UNCHANGED <<authVars, exVars, rOs, rCsr, rPath, rDevices>>

\* The check of one device settles. An error that the callback does not
\* catch rejects Promise.all, and with it the call, at once.
RCheck ==
  /\ rResult.state = "running"
  /\ \E i \in 1..Len(rDevices) :
       /\ rDone[i] = Pending
       /\ LET res == deviceCheck(rOs, rDevices[i], rPath, rCsr)
          IN IF res.error # "none" /\ ~checkIsCaught(rOs)
               THEN rResult' = Rejected(res.error) /\ rDone' = rDone
               ELSE rDone' = [rDone EXCEPT ![i] = res] /\ rResult' = rResult
  /\ UNCHANGED <<authVars, exVars, rOs, rCsr, rPath, rDevices>>

\* Promise.all has resolved: the match decision.
RJoin ==
  /\ rResult.state = "running"
  /\ \A i \in 1..Len(rDevices) : rDone[i] # Pending
  /\ rResult' = decide(rOs, rDone)
  /\ UNCHANGED <<authVars, exVars, rOs, rCsr, rPath, rDevices, rDone>>

ResolveNext ==
  \/ RStart
  \/ RCheck
  \/ RJoin

SpecResolve == ResolveInit /\ [][ResolveNext]_vars

(***************************************************************************)
(* Claims about device identity resolution.                                *)
(***************************************************************************)
Settled == rResult.state \in {"resolved", "rejected"}

\* The devices whose own copy of the CSR equals the presented one after
\* sanitization, and those whose pull does not deliver a file.
Matching ==
  {i \in 1..Len(rDevices) :
     /\ rDevices[i].pull = "ok"
     /\ santitizeString(rDevices[i].csr) = santitizeString(rCsr)}

Failing == {i \in 1..Len(rDevices) : rDevices[i].pull # "ok"}

\* C1: Android, a non-empty list of devices, every pull succeeds: with one
\* matching device the resolution returns its id, with none it fails with
\* NoMatchingDevice, with several it returns the first in enumeration order.
C1_AndroidResolution ==
  (rOs = "Android" /\ Settled /\ Len(rDevices) > 0 /\ Failing = {}) =>
    IF Matching = {} THEN rResult = Rejected("NoMatchingDevice")
    ELSE rResult = Resolved(MinOf(Matching))

C1_Witness ==
  /\ rOs = "Android" /\ Settled /\ Failing = {}
  /\ Cardinality(Matching) >= 2
  /\ \E i \in Matching : rDevices[i].csr # rCsr
  /\ rResult = Resolved(MinOf(Matching))

\* C2: Android, any devices failing their pull, any completion order: when a
\* device matches, the call returns the first matching id whatever failed;
\* a pull error is thrown only when no device matched, and then rather than
\* NoMatchingDevice.
C2_AndroidErrorIsolation ==
  (rOs = "Android" /\ Settled /\ Len(rDevices) > 0) =>
    /\ Matching # {} => rResult = Resolved(MinOf(Matching))
    /\ (Matching = {} /\ Failing # {}) => rResult = Rejected("PullError")
    /\ rResult.error = "PullError" => Matching = {}

C2_Witness ==
  /\ rOs = "Android" /\ Settled
  /\ Matching # {} /\ Failing # {}
  /\ MinOf(Failing) < MinOf(Matching)
  /\ rResult = Resolved(MinOf(Matching))

\* C3 as claimed: iOS, the path is no simulator path (and holds the container
\* pattern), several targets: when a target matches, the call returns the
\* first matching udid whatever failed on other targets, and an error is
\* surfaced only when no target matched.
C3_Original ==
  (/\ rOs = "iOS" /\ Settled /\ Len(rDevices) > 1
   /\ simulatorIdOf(rPath) = <<>>
   /\ matchesAppContainer(rPath \o <<"app.csr">>, FALSE)) =>
    /\ Matching # {} => rResult = Resolved(MinOf(Matching))
    /\ rResult.state = "rejected" => Matching = {}

\* What the iOS resolution does guarantee: without a failing target it follows
\* the zero / one / many policy.
C3_WithoutErrors ==
  (/\ rOs = "iOS" /\ Settled /\ Len(rDevices) > 0 /\ Failing = {}
   /\ simulatorIdOf(rPath) = <<>>
   /\ matchesAppContainer(rPath \o <<"app.csr">>, FALSE)) =>
    IF Matching = {} THEN rResult = Rejected("NoMatchingDevice")
    ELSE rResult = Resolved(MinOf(Matching))

(***************************************************************************)
(* One certificate exchange: processCertificateSigningRequest.             *)
(*                                                                         *)
(* The provider has just been constructed (certificateSetup is pending)    *)
(* on a directory left by earlier runs.  The exchange is called with the   *)
(* CSR rCsr, the OS rOs, the app directory rPath and the medium; rDevices  *)
(* are the devices connected.  Each step is one stage of the promise chain.*)
(***************************************************************************)
MaxExchangeDevices == 1

Mediums == {"FS_ACCESS", "WWW", "NONE"}

OSes == {"Android", "iOS", "windows", "MacOS", "other"}

deviceCAcertFile == "sonarCA.crt"

deviceClientCertFile == "device.crt"

\* [\w.-] of allowedAppNameRegex (the utils variant spells it [\w._-])
WordChars == {"a", "b", "e", "r", "1", "_"}

AllowedChars == WordChars \cup {".", "-"}

\* The subject line openssl req -subject prints, in the name format that
\* is not RFC2253 and escapes nothing, for a CSR whose subject has the
\* Common Name cn (<<>>: none) and then the attributes more: whether
\* x509SubjectCNRegex finds "CN=" in it, and the characters from there to
\* the end of the line.
subjectLine(cn, more) ==
  [hasCN |-> cn # <<>>, cn |-> cn,
   rest |-> IF cn = <<>> THEN <<>> ELSE cn \o more]

Subjects ==
  {subjectLine(<<"a", ".", "b">>, <<>>),
   subjectLine(<<"e", ";", "r">>, <<>>),
   subjectLine(<<>>, <<>>)}

\* ([^,]*) of x509SubjectCNRegex
RECURSIVE upToComma(_)
upToComma(s) ==
  IF s = <<>> \/ Head(s) = "," THEN <<>>
  ELSE <<Head(s)>> \o upToComma(Tail(s))

extractAppNameFromCSR(subj) ==
  IF ~subj.hasCN
    THEN [ok |-> FALSE, err |-> "MalformedSubject", appName |-> <<>>]
  ELSE LET appName == upToComma(trimEnd(subj.rest))
       IN IF appName # <<>>
               /\ \A k \in 1..Len(appName) : appName[k] \in AllowedChars
            THEN [ok |-> TRUE, err |-> "none", appName |-> appName]
            ELSE [ok |-> FALSE, err |-> "DisallowedAppName", appName |-> <<>>]

\* faulty variant: an empty enumeration is not told apart
failsOnNoDevicesNever(devs) == FALSE

\* devicesInAdb.length === 0, targets.length === 0
failsOnNoDevices(devs) == Len(devs) = 0

\* What "await this.adb" gives an operation that asks for the client when
\* the ADB initialisation is in the state a:
\*   client     the ADB client;
\*   initError  the error of the initialisation: in the utils variant the
\*              rejection of getAdbClient, in the server variant the error
\*              the getter throws once _adb has been set to undefined;
\*   absent     undefined: the server variant hands out the promise
\*              getAdbClient(config).catch(...), which is fulfilled with the
\*              value of the catch callback.
adbHandle(i, a) ==
  IF a = "ready" THEN "client"
  ELSE IF i = "server" /\ a = "failing" THEN "absent"
  ELSE "initError"

AdbErrors == {"AdbInitFailed", "TypeError"}

\* The ways a device resolution can end, with what it did on the way: an
\* error no callback catches rejects Promise.all, whichever check throws
\* first.  hnd is what this.adb gives the Android resolution.
resolutionOutcomes(os, devs, path, csr, hnd) ==
  IF os = "iOS" /\ simulatorIdOf(path) # <<>>
    THEN {[res |-> Resolved(simulatorIdOf(path)[1]),
           listed |-> FALSE, pulled |-> FALSE, absent |-> FALSE]}
  ELSE IF os = "Android" /\ hnd = "initError"
    THEN {[res |-> Rejected("AdbInitFailed"),
           listed |-> FALSE, pulled |-> FALSE, absent |-> FALSE]}
  ELSE IF os = "Android" /\ hnd = "absent"
    THEN {[res |-> Rejected("TypeError"),
           listed |-> FALSE, pulled |-> FALSE, absent |-> TRUE]}
  ELSE IF failsOnNoDevices(devs)
    THEN {[res |-> Rejected("NoDevicesFound"), listed |-> TRUE,
           pulled |-> FALSE, absent |-> FALSE]}
  ELSE
    LET checks == [i \in 1..Len(devs) |-> deviceCheck(os, devs[i], path, csr)]
        uncaught == {i \in 1..Len(devs) :
                       checks[i].error # "none" /\ ~checkIsCaught(os)}
        pulled == /\ Len(devs) > 0
                  /\ \/ os = "Android"
                     \/ matchesAppContainer(path \o <<"app.csr">>, FALSE)
    IN IF uncaught = {}
         THEN {[res |-> decide(os, checks), listed |-> TRUE,
                pulled |-> pulled, absent |-> FALSE]}
         ELSE {[res |-> Rejected(checks[i].error), listed |-> TRUE,
                pulled |-> pulled, absent |-> FALSE] : i \in uncaught}

getTargetDeviceId(os, devs, path, csr, hnd) ==
  IF os \in {"Android", "iOS"}
    THEN resolutionOutcomes(os, devs, path, csr, hnd)
  ELSE IF os = "MacOS"
    THEN {[res |-> Resolved(""), listed |-> FALSE, pulled |-> FALSE,
           absent |-> FALSE]}
  ELSE {[res |-> Resolved("unknown"), listed |-> FALSE, pulled |-> FALSE,
         absent |-> FALSE]}

\* faulty variant: every OS but Android is written to directly
writesDirectlyAnyOS(os) == os # "Android"

\* os === 'iOS' || os === 'windows' || os == 'MacOS'
writesDirectly(os) == os \in {"iOS", "windows", "MacOS"}

\* The result of one delivery: whether it succeeded, its error, and the I/O
\* done when it ended.
Delivered(io0) == [ok |-> TRUE, err |-> "none", io |-> io0]

DeliveryFailed(e, io0) == [ok |-> FALSE, err |-> e, io |-> io0]

\* The bridge an exchange works with: what this.adb gives (hnd), whether a
\* push succeeds (pushOK), and whether the caller of pushFileToiOSDevice
\* gets a promise that waits for the push (awaited).
Bridge(i, a, pok) ==
  [hnd |-> adbHandle(i, a), pushOK |-> pok, awaited |-> i = "server"]

\* The push of file to the device dev: androidUtil.push to
\* destination + filename, iosUtil.push to the path inside the container.
pushRecord(os, dev, file, path) ==
  [dev |-> dev, file |-> file,
   at |-> IF os = "Android" THEN path
          ELSE getRelativePathInAppContainer(path, TRUE)]

\* faulty variant: no caller waits for the push to an iOS device
pushIsAwaitedNever(os, br) == os = "Android"

\* Whether the delivery settles with the push: androidUtil.push is awaited
\* or returned; pushFileToiOSDevice awaits iosUtil.push in the server
\* variant, and in the utils variant starts it without returning it.
pushIsAwaited(os, br) == os = "Android" \/ br.awaited

\* Resolve the device as os does, then push the file to it.
resolveAndPush(os, file, devs, path, csr, io0, br) ==
  {LET io1 == [io0 EXCEPT !.listed = @ \/ o.listed, !.pulled = @ \/ o.pulled,
                          !.absentHandle = @ \/ o.absent]
       p == pushRecord(os, o.res.id, file, path)
   IN IF o.res.state # "resolved" THEN DeliveryFailed(o.res.error, io1)
      ELSE IF ~pushIsAwaited(os, br)
        THEN Delivered([io1 EXCEPT !.inFlight = @ \cup {p}])
      ELSE IF br.pushOK
        THEN Delivered([io1 EXCEPT !.pushes = @ \cup {p}])
      ELSE DeliveryFailed("PushFailed", io1) :
   o \in resolutionOutcomes(os, devs, path, csr, br.hnd)}

\* server variant
deployOrStageFileForMobileApp(file, os, med, subj, devs, path, csr, direct, io0, br) ==
  IF med = "WWW"
    THEN {Delivered([io0 EXCEPT !.staged = @ \cup {file}])}
  ELSE IF ~extractAppNameFromCSR(subj).ok
    THEN {DeliveryFailed(extractAppNameFromCSR(subj).err, io0)}
  ELSE IF os = "Android"
    THEN resolveAndPush("Android", file, devs, path, csr, io0, br)
  ELSE IF writesDirectly(os)
    THEN IF direct
           THEN {Delivered([io0 EXCEPT !.written = @ \cup {file}])}
         ELSE IF ~matchesAppContainer(path, TRUE)
           THEN {DeliveryFailed("UnexpectedContainerPath", io0)}
         ELSE resolveAndPush("iOS", file, devs, path, csr, io0, br)
  ELSE {DeliveryFailed("UnsupportedPlatform", io0)}

\* utils variant: the write into the app directory is started without
\* waiting for appNamePromise.
deployFileToMobileApp(file, os, subj, devs, path, csr, direct, io0, br) ==
  IF os = "Android"
    THEN IF ~extractAppNameFromCSR(subj).ok
           THEN {DeliveryFailed(extractAppNameFromCSR(subj).err, io0)}
           ELSE resolveAndPush("Android", file, devs, path, csr, io0, br)
  ELSE IF writesDirectly(os)
    THEN IF direct
           THEN {Delivered([io0 EXCEPT !.written = @ \cup {file}])}
         ELSE IF os # "iOS"
           THEN {DeliveryFailed("InvalidAppDirectory", io0)}
         ELSE IF ~matchesAppContainer(path, TRUE)
           THEN {DeliveryFailed("UnexpectedContainerPath", io0)}
         ELSE IF ~extractAppNameFromCSR(subj).ok
           THEN {DeliveryFailed(extractAppNameFromCSR(subj).err, io0)}
         ELSE resolveAndPush("iOS", file, devs, path, csr, io0, br)
  ELSE {DeliveryFailed("UnsupportedPlatform", io0)}

deploy(i, file, os, med, subj, devs, path, csr, direct, io0, br) ==
  IF i = "server"
    THEN deployOrStageFileForMobileApp(file, os, med, subj, devs, path, csr,
                                       direct, io0, br)
    ELSE deployFileToMobileApp(file, os, subj, devs, path, csr, direct, io0,
                               br)

\* the key of the app, which its CSR carries
ClientKey == NumKeyIds + 1

\* the certificate openssl x509 -req prints for the client's CSR
signedClientCert(d, t) ==
  [key |-> ClientKey, issuer |-> d.caCert.key, exp |-> t + certValiditySeconds]

\* faulty variant: the toolkit never signs
canSignClientNever(d) == FALSE

\* openssl x509 -req -CA ca.crt -CAkey ca.key on the client's CSR
canSignClient(d) ==
  pathExists(d.caKey) /\ certExists(d.caCert) /\ d.caCert.key = d.caKey

\* The directory an earlier, successful setup at time 0 has left.
EarlierSetup == ensureServerCertExists(EmptyDir, "server", "exact", 0, 0).d

\* The clock and the directory the provider starts on: nothing there yet;
\* certificates generated a second ago; the same after their validity has
\* run out; the same with ca.key deleted; the same with the CA generated
\* anew since server.crt was signed.
Starts ==
  {[now |-> 0, dir |-> EmptyDir],
   [now |-> 1, dir |-> EarlierSetup],
   [now |-> certValiditySeconds, dir |-> EarlierSetup],
   [now |-> 1, dir |-> [EarlierSetup EXCEPT !.caKey = 0]],
   [now |-> 1,
    dir |-> generateCertificateAuthority(StartRun(EarlierSetup), 0, 0).d]}

BlankCsr == <<"SP", "CR", "LF">>

\* The exchanges that deliver by staging: they use no device at all.
Stages(i, med) == i = "server" /\ med = "WWW"

\* The exchanges in which a failed direct write is followed by a push: the
\* app directory and the outcome of the push matter to these only.
FallsBackToPush(i, os, med, direct) ==
  /\ writesDirectly(os) /\ ~direct /\ ~Stages(i, med)
  /\ i = "server" \/ os = "iOS"

ExchangeDeviceKinds ==
  {[pull |-> "ok", csr |-> CsrA], [pull |-> "ok", csr |-> <<"b">>],
   [pull |-> "error", csr |-> CsrA]}

Init ==
  /\ impl \in Impls
  /\ \E s \in Starts :
       /\ now = s.now
       /\ dir = s.dir
       /\ quick \in IF s.dir = EmptyDir THEN {"exact"} ELSE QuickModes
  /\ ext = 0
  /\ certificateSetup = "pending"
  /\ last = NoCall
  /\ rOs \in OSes
  /\ medium \in IF impl = "server" THEN Mediums ELSE Mediums \ {"NONE"}
  /\ subject \in Subjects
  /\ rCsr \in {CsrA, BlankCsr}
  /\ directWriteOK \in IF rOs \in {"iOS", "windows", "MacOS"}
                         THEN BOOLEAN ELSE {FALSE}
  /\ rPath \in IF rOs = "iOS" \/ FallsBackToPush(impl, rOs, medium, directWriteOK)
               THEN Paths ELSE {DevicePath}
  /\ opensslInstalled \in BOOLEAN
  /\ adb \in IF rOs = "Android" /\ ~Stages(impl, medium)
               THEN {"ready", "failing", "failed"} ELSE {"ready"}
  /\ pushOK \in IF (rOs = "Android" /\ ~Stages(impl, medium) /\ adb = "ready")
                      \/ FallsBackToPush(impl, rOs, medium, directWriteOK)
                  THEN BOOLEAN ELSE {TRUE}
  /\ \E n \in 0..MaxExchangeDevices :
       /\ rOs = "other" => n = 0
       /\ rDevices \in [1..n -> ExchangeDeviceKinds]
  /\ rDone = <<>>
  /\ rResult = NoResult
  /\ pc = "idle"
  /\ io = NoIO
  /\ outcome = NoOutcome

\* faulty variant: a rejected delivery of the CA certificate is swallowed
FailSwallowed(e) ==
  /\ pc' = (IF pc = "deployCA" THEN "sign" ELSE "failed")
  /\ outcome' = [outcome EXCEPT !.err = e, !.at = pc]

\* A step throws, or the promise it awaits is rejected: the exchange is
\* rejected with that error.
Fail(e) ==
  /\ pc' = "failed"
  /\ outcome' = [outcome EXCEPT !.err = e, !.at = pc]

\* faulty variant: no CSR is taken to be empty
isEmptyRequestNever(csr) == FALSE

\* csr === '' after santitizeString
isEmptyRequest(csr) == santitizeString(csr) = <<>>

\* faulty variant: a missing toolkit is thrown at the caller
ensureOpenSSLIsAvailableThrows(installed) ==
  [notified |-> ~installed, throws |-> ~installed]

\* ensureOpenSSLIsAvailable: when the toolkit is not installed the error is
\* emitted on the server, and the method returns.
ensureOpenSSLIsAvailable(installed) ==
  [notified |-> ~installed, throws |-> FALSE]

\* processCertificateSigningRequest up to "await this.certificateSetup"
XStart ==
  /\ pc = "idle"
  /\ IF isEmptyRequest(rCsr)
       THEN Fail("EmptyRequest") /\ io' = io
       ELSE LET e == ensureOpenSSLIsAvailable(opensslInstalled)
            IN IF e.throws
                 THEN /\ Fail("ToolkitUnavailable")
                      /\ io' = [io EXCEPT !.notified = e.notified]
                 ELSE /\ pc' = "awaitSetup"
                      /\ outcome' = outcome
                      /\ io' = [io EXCEPT !.notified = e.notified,
                                          !.tmpRoot = (impl = "server")]
  /\ UNCHANGED <<authVars, resVars, exInputs>>

\* faulty variant: the exchange goes on whatever became of the setup
readinessPassesAlways(setup) == TRUE

\* "await this.certificateSetup" returns when the promise is fulfilled and
\* throws when it is rejected
readinessPasses(setup) == setup = "resolved"

\* await this.certificateSetup
XAwaitSetup ==
  /\ pc = "awaitSetup"
  /\ certificateSetup # "pending"
  /\ IF readinessPasses(certificateSetup)
       THEN pc' = "readCA" /\ outcome' = outcome
       ELSE Fail("AuthorityInvalid")
  /\ UNCHANGED <<authVars, resVars, exInputs, io>>

\* getCACertificate
XReadCA ==
  /\ pc = "readCA"
  /\ IF certExists(dir.caCert)
       THEN /\ pc' = "deployCA"
            /\ io' = [io EXCEPT !.caRead = TRUE]
            /\ outcome' = [outcome EXCEPT !.caCert = dir.caCert]
       ELSE Fail("ReadFailed") /\ io' = io
  /\ UNCHANGED <<authVars, resVars, exInputs>>

\* An operation that was rejected by "await this.adb" has waited for the
\* initialisation to settle: its failure is recorded by then.
adbAfter(a, err) == IF err \in AdbErrors THEN "failed" ELSE a

\* the delivery of sonarCA.crt, then of device.crt
XDeploy ==
  /\ pc \in {"deployCA", "deployClient"}
  /\ \E o \in deploy(impl,
                     IF pc = "deployCA"
                       THEN [name |-> deviceCAcertFile,
                             contents |-> outcome.caCert]
                       ELSE [name |-> deviceClientCertFile,
                             contents |-> outcome.clientCert],
                     rOs, medium, subject, rDevices, rPath, rCsr,
                     directWriteOK, io, Bridge(impl, adb, pushOK)) :
       /\ io' = o.io
       /\ adb' = adbAfter(adb, o.err)
       /\ IF o.ok
            THEN /\ pc' = (IF pc = "deployCA" THEN "sign" ELSE "extract")
                 /\ outcome' = outcome
            ELSE Fail(o.err)
  /\ UNCHANGED <<authVars, resVars, exArgs>>

\* generateClientCertificate: signs with the CA, with server.srl as serial file
XSign ==
  /\ pc = "sign"
  /\ IF canSignClient(dir)
       THEN /\ pc' = "deployClient"
            /\ io' = [io EXCEPT !.signed = TRUE,
                                !.csrFiles = @ \cup {"signing"}]
            /\ dir' = [dir EXCEPT !.serverSrl = NextSerial(@)]
            /\ outcome' = [outcome EXCEPT !.clientCert = signedClientCert(dir, now)]
       ELSE /\ Fail("SigningFailed")
            /\ io' = [io EXCEPT !.csrFiles = @ \cup {"signing"}]
            /\ dir' = dir
  /\ UNCHANGED <<impl, quick, now, ext, certificateSetup, last, resVars,
                 exInputs>>

\* extractAppNameFromCSR, step 6 of the exchange
XExtract ==
  /\ pc = "extract"
  /\ IF extractAppNameFromCSR(subject).ok
       THEN /\ pc' = "resolve"
            /\ outcome' = [outcome EXCEPT
                             !.appName = extractAppNameFromCSR(subject).appName]
       ELSE Fail(extractAppNameFromCSR(subject).err)
  /\ UNCHANGED <<authVars, resVars, exInputs, io>>

\* faulty variant: the server variant archives whatever the medium
runsArchiveAndUploadAnyMedium(i, med) == i = "server"

\* if (medium === 'WWW'), which only the server variant has
runsArchiveAndUpload(i, med) == i = "server" /\ med = "WWW"

\* the deviceId of the result: getTargetDeviceId, or uuid() when the server
\* variant runs with another medium than FS_ACCESS
XResolve ==
  /\ pc = "resolve"
  /\ IF impl = "server" /\ medium # "FS_ACCESS"
       THEN /\ outcome' = [outcome EXCEPT !.deviceId = <<"uuid">>]
            /\ pc' = (IF runsArchiveAndUpload(impl, medium)
                        THEN "zip" ELSE "done")
            /\ io' = io
            /\ adb' = adb
       ELSE \E o \in getTargetDeviceId(rOs, rDevices, rPath, rCsr,
                                       adbHandle(impl, adb)) :
              /\ io' = [io EXCEPT !.listed = @ \/ o.listed,
                                  !.pulled = @ \/ o.pulled,
                                  !.absentHandle = @ \/ o.absent]
              /\ adb' = adbAfter(adb, o.res.error)
              /\ IF o.res.state = "resolved"
                   THEN /\ outcome' = [outcome EXCEPT !.deviceId = <<o.res.id>>]
                        /\ pc' = (IF runsArchiveAndUpload(impl, medium)
                                    THEN "zip" ELSE "done")
                   ELSE Fail(o.res.error)
  /\ UNCHANGED <<authVars, resVars, exArgs>>

\* the archive of the staging folder
XZip ==
  /\ pc = "zip"
  /\ \/ pc' = "upload" /\ io' = [io EXCEPT !.zipped = TRUE] /\ outcome' = outcome
     \/ Fail("ArchiveFailed") /\ io' = io
  /\ UNCHANGED <<authVars, resVars, exInputs>>

\* uploadFiles, under its timeout
\* the endpoint acknowledges the request in time
XUploadAck ==
  /\ pc = "upload"
  /\ pc' = "done"
  /\ io' = [io EXCEPT !.uploaded = TRUE]
  /\ UNCHANGED <<authVars, resVars, exInputs, outcome>>

\* reading the archive or the request fails
XUploadFail ==
  /\ pc = "upload"
  /\ Fail("UploadFailed")
  /\ UNCHANGED <<authVars, resVars, exInputs, io>>

\* faulty variant: the upload is awaited without a timer
timeoutNeverElapses == FALSE

\* timeout(5 * 60 * 1000, ...): the timer fires once the time is up
timeoutElapses == TRUE

\* the timer fires before the request has settled
XUploadTimeout ==
  /\ pc = "upload"
  /\ timeoutElapses
  /\ Fail("UploadTimeout")
  /\ UNCHANGED <<authVars, resVars, exInputs, io>>

\* the request, which the timer does not cancel, completes after the
\* exchange was rejected
XUploadLate ==
  /\ pc = "failed" /\ outcome.err = "UploadTimeout"
  /\ ~io.uploaded
  /\ io' = [io EXCEPT !.uploaded = TRUE]
  /\ UNCHANGED <<authVars, resVars, exInputs, pc, outcome>>

XUpload ==
  \/ XUploadAck
  \/ XUploadFail
  \/ XUploadTimeout
  \/ XUploadLate

\* A push nobody waits for settles: the device acknowledges the file, or
\* the push fails and its rejection is handled by nobody.
XPushSettles ==
  /\ \E p \in io.inFlight :
       io' = [io EXCEPT !.inFlight = @ \ {p},
                        !.pushes = IF pushOK THEN @ \cup {p} ELSE @,
                        !.lost = IF pushOK THEN @ ELSE @ \cup {p}]
  /\ UNCHANGED <<authVars, resVars, exInputs, pc, outcome>>

\* getAdbClient rejects: the server variant's catch callback sets _adb to
\* undefined, the utils variant's this.adb is a rejected promise from now on.
AdbInitFails ==
  /\ adb = "failing"
  /\ adb' = "failed"
  /\ UNCHANGED <<authVars, resVars, exArgs, pc, io, outcome>>

Next ==
  \/ SetupRun
  \/ AdbInitFails
  \/ XPushSettles
  \/ XStart
  \/ XAwaitSetup
  \/ XReadCA
  \/ XDeploy
  \/ XSign
  \/ XExtract
  \/ XResolve
  \/ XZip
  \/ XUpload

Spec == Init /\ [][Next]_vars

\* The exchanges that can reach the upload: server variant, medium WWW. The
\* timer is the one step the scheduling guarantees; the endpoint owes none.
UploadInit == Init /\ impl = "server" /\ medium = "WWW"

\* The steps of such an exchange: the server variant awaits every push, so
\* that none settles later, and network staging uses no ADB client.
UploadNext ==
  \/ SetupRun
  \/ XStart
  \/ XAwaitSetup
  \/ XReadCA
  \/ XDeploy
  \/ XSign
  \/ XExtract
  \/ XResolve
  \/ XZip
  \/ XUpload

SpecUpload == UploadInit /\ [][UploadNext]_vars /\ WF_vars(XUploadTimeout)

(***************************************************************************)
(* An Android exchange over FS_ACCESS while the devices change: the three  *)
(* resolutions of the device (one in each delivery, one for the result)    *)
(* each enumerate the devices and pull their app.csr anew.  A device keeps *)
(* its place in the enumeration, which is its id.                          *)
(***************************************************************************)
MaxChurnDevices == 2

ChurnInit ==
  /\ impl \in Impls
  /\ quick = "exact"
  /\ now = 1
  /\ dir = EarlierSetup
  /\ ext = 0
  /\ certificateSetup = "pending"
  /\ last = NoCall
  /\ rOs = "Android"
  /\ medium = "FS_ACCESS"
  /\ subject = subjectLine(<<"a", ".", "b">>, <<>>)
  /\ rCsr = CsrA
  /\ directWriteOK = FALSE
  /\ rPath = DevicePath
  /\ opensslInstalled = TRUE
  /\ adb = "ready"
  /\ pushOK = TRUE
  /\ rDevices \in [1..MaxChurnDevices -> ExchangeDeviceKinds]
  /\ rDone = <<>>
  /\ rResult = NoResult
  /\ pc = "idle"
  /\ io = NoIO
  /\ outcome = NoOutcome

\* External: between two steps of the exchange a device goes offline or
\* comes back (its pull fails or works), or the app.csr it stores is
\* replaced.
DevicesChange ==
  /\ pc \notin {"done", "failed"}
  /\ ext < MaxExternal
  /\ \E i \in 1..Len(rDevices) : \E k \in ExchangeDeviceKinds \ {rDevices[i]} :
       rDevices' = [rDevices EXCEPT ![i] = k]
  /\ ext' = ext + 1
  /\ UNCHANGED <<impl, quick, now, dir, certificateSetup, last,
                 rOs, rCsr, rPath, rDone, rResult, exVars>>

ChurnNext ==
  \/ SetupRun
  \/ DevicesChange
  \/ XStart
  \/ XAwaitSetup
  \/ XReadCA
  \/ XDeploy
  \/ XSign
  \/ XExtract
  \/ XResolve

SpecChurn == ChurnInit /\ [][ChurnNext]_vars

(***************************************************************************)
(* One provider instance serving call after call: exchanges over FS_ACCESS *)
(* one after another, and loadSecureServerConfig at any moment in between. *)
(***************************************************************************)
\* faulty variant: every call runs ensureServerCertExists anew
setupAwaitedByCallRestarted(setup) == "pending"

\* The setup a call of processCertificateSigningRequest or of
\* loadSecureServerConfig waits for: this.certificateSetup, the promise the
\* constructor stored.
setupAwaitedByCall(setup) == setup

InstanceInit ==
  /\ Init
  /\ medium = "FS_ACCESS"
  /\ rOs \in {"Android", "MacOS"}
  /\ adb = "ready"
  /\ pushOK

\* The next call of processCertificateSigningRequest on the instance, with
\* the arguments of the one that has returned.
XCallAgain ==
  /\ pc \in {"done", "failed"}
  /\ pc' = "idle"
  /\ io' = NoIO
  /\ outcome' = NoOutcome
  /\ certificateSetup' = setupAwaitedByCall(certificateSetup)
  /\ UNCHANGED <<impl, quick, now, ext, dir, last, resVars, exInputs>>

\* A call of loadSecureServerConfig on the instance.
XLoadConfig ==
  /\ certificateSetup \in {"resolved", "rejected"}
  /\ LET s == setupAwaitedByCall(certificateSetup)
     IN /\ certificateSetup' = s
        /\ last' = IF s = "pending" THEN NoCall
                   ELSE [NoCall EXCEPT
                           !.op = "loadSecureServerConfig",
                           !.ok = loadSecureServerConfig(s, dir).ok,
                           !.config = loadSecureServerConfig(s, dir).config]
  /\ UNCHANGED <<impl, quick, now, ext, dir, resVars, exVars>>

InstanceNext ==
  \/ SetupRun
  \/ XLoadConfig
  \/ XCallAgain
  \/ XStart
  \/ XAwaitSetup
  \/ XReadCA
  \/ XDeploy
  \/ XSign
  \/ XExtract
  \/ XResolve

SpecInstance == InstanceInit /\ [][InstanceNext]_vars

(***************************************************************************)
(* extractAppNameFromCSR as a function of the subject of the CSR.          *)
(***************************************************************************)
MaxNameLen == 3

\* word characters, the other allowed characters, and characters outside
\* the allow-list
NameChars == {"a", "_", ".", "-", ";", "SP", "/", ","}

Names == UNION {[1..n -> NameChars] : n \in 1..MaxNameLen}

\* the attributes that follow the Common Name: none, or ",O=x"
FurtherAttributes == {<<>>, <<",", "O", "=", "x">>}

ExtractInit ==
  /\ impl \in Impls
  /\ quick = "exact"
  /\ now = 0
  /\ ext = 0
  /\ dir = EmptyDir
  /\ certificateSetup = "none"
  /\ last = NoCall
  /\ ResIdle
  /\ medium = "FS_ACCESS"
  /\ \E cn \in Names, more \in FurtherAttributes :
       subject = subjectLine(cn, more)
  /\ directWriteOK = FALSE
  /\ opensslInstalled = TRUE
  /\ pushOK = TRUE
  /\ adb = "ready"
  /\ pc = "idle"
  /\ io = NoIO
  /\ outcome = NoOutcome

\* A direct call of the public extractAppNameFromCSR.
ExtractCall ==
  /\ last.op = "none"
  /\ LET r == extractAppNameFromCSR(subject)
     IN /\ last' = [NoCall EXCEPT !.op = "extractAppNameFromCSR",
                                   !.ok = r.ok, !.result = r.err]
        /\ outcome' = [outcome EXCEPT !.appName = r.appName]
  /\ UNCHANGED <<impl, quick, now, ext, dir, certificateSetup, resVars,
                 exInputs, pc, io>>

SpecExtract == ExtractInit /\ [][ExtractCall]_vars

(***************************************************************************)
(* santitizeString as a function of the CSR text, and the per-device       *)
(* comparison that applies it: one device is connected, whose app.csr is   *)
(* the presented CSR with white space or a carriage return added, or       *)
(* another text.                                                           *)
(***************************************************************************)
MaxCsrLen == 3

CsrChars == {"a", "b", "CR", "LF", "SP"}

Texts == UNION {[1..n -> CsrChars] : n \in 0..MaxCsrLen}

\* x with a carriage return after its k-th character
WithCR(x, k) == SubSeq(x, 1, k) \o <<"CR">> \o SubSeq(x, k + 1, Len(x))

\* x with one white-space character added in front or at the end, or with
\* one carriage return added anywhere
Variants(x) ==
  {<<c>> \o x : c \in {"CR", "LF", "SP"}}
    \cup {x \o <<c>> : c \in {"CR", "LF", "SP"}}
    \cup {WithCR(x, k) : k \in 0..Len(x)}

SanitizeInit ==
  /\ impl \in Impls
  /\ quick = "exact"
  /\ now = 0
  /\ ext = 0
  /\ dir = EmptyDir
  /\ certificateSetup = "none"
  /\ last = NoCall
  /\ rOs \in {"Android", "iOS"}
  /\ rCsr \in Texts
  /\ rPath = DevicePath
  /\ \E c \in Variants(rCsr) \cup {<<"b">>} :
       rDevices = <<[pull |-> "ok", csr |-> c]>>
  /\ rDone = <<>>
  /\ rResult = NoResult
  /\ ExIdle

SpecSanitize == SanitizeInit /\ [][ResolveNext]_vars

(***************************************************************************)
(* Claims about the exchange.                                              *)
(***************************************************************************)
PastReadiness ==
  pc \in {"readCA", "deployCA", "sign", "deployClient", "extract", "resolve",
          "zip", "upload", "done"}

\* C5: when ensureServerCertExists finds server.crt with its end date in the
\* past it regenerates the server certificate, and when it succeeds the new
\* certificate passes checkCertIsValid; no exchange is past the readiness
\* step without a successful setup or with an expired server.crt in place.
C5_ExpiredServerCertRegenerated ==
  /\ (SetupDone /\ last.case = "expired") =>
       /\ last.srvRegen
       /\ last.ok => /\ NewServerCert
                     /\ checkCertIsValid(impl, quick, dir.serverCert, now) = "ok"
  /\ (\/ PastReadiness
      \/ io.caRead \/ io.signed
      \/ io.staged # {} \/ io.written # {} \/ io.pushes # {}) =>
       /\ certificateSetup = "resolved"
       /\ certExists(dir.serverCert)
       /\ now < dir.serverCert.exp

C5_Witness ==
  /\ SetupDone /\ last.case = "expired" /\ last.ok
  /\ pc = "done" /\ io.pushes # {}
  /\ now < dir.serverCert.exp

DisallowedCN ==
  /\ subject.hasCN
  /\ extractAppNameFromCSR(subject).err = "DisallowedAppName"

\* C10 as claimed: an exchange whose CSR carries a Common Name outside the
\* allow-list, on a provider whose setup succeeded and whose CA can sign,
\* ends with DisallowedAppName, and nothing has then been staged, written,
\* listed, pulled or pushed.
C10_Original ==
  (/\ DisallowedCN /\ santitizeString(rCsr) # <<>>
   /\ pc \in {"failed", "done"}
   /\ certificateSetup = "resolved" /\ canSignClient(dir)) =>
    /\ pc = "failed"
    /\ outcome.err = "DisallowedAppName"
    /\ io.staged = {} /\ io.written = {} /\ io.pushes = {}
    /\ ~io.listed /\ ~io.pulled

\* What does hold: the server variant delivering over another medium than
\* WWW checks the name before it touches a device or a container.
C10_ServerDirect ==
  (/\ DisallowedCN /\ santitizeString(rCsr) # <<>>
   /\ impl = "server" /\ medium # "WWW"
   /\ pc \in {"failed", "done"}
   /\ certificateSetup = "resolved") =>
    /\ pc = "failed"
    /\ outcome.err = "DisallowedAppName"
    /\ io.staged = {} /\ io.written = {} /\ io.pushes = {}
    /\ ~io.listed /\ ~io.pulled

Ended == pc \in {"done", "failed"}

\* C11: an exchange whose CSR is empty after sanitization is rejected with
\* EmptyRequest and has done nothing else: no toolkit notification, no
\* temporary folder, no CA read, no signing, no transient file, no device I/O.
C11_EmptyRequest ==
  (santitizeString(rCsr) = <<>> /\ pc # "idle") =>
    /\ pc = "failed"
    /\ outcome = [NoOutcome EXCEPT !.err = "EmptyRequest", !.at = "idle"]
    /\ io = NoIO

C11_Witness ==
  /\ rCsr = BlankCsr /\ pc = "failed" /\ outcome.err = "EmptyRequest"
  /\ ~opensslInstalled /\ certificateSetup = "rejected"
  /\ Len(rDevices) > 0

Deliverable ==
  /\ certificateSetup = "resolved"
  /\ ~isEmptyRequest(rCsr)
  /\ extractAppNameFromCSR(subject).ok

\* C12: Android, medium FS_ACCESS, no device connected: no push is ever
\* issued, and an exchange with a non-empty CSR and an allowed app name on a
\* provider whose setup succeeded and whose ADB client is ready ends with
\* NoDevicesFound.
C12_NoDevicesFound ==
  (rOs = "Android" /\ medium = "FS_ACCESS" /\ Len(rDevices) = 0) =>
    /\ io.pushes = {} /\ io.inFlight = {}
    /\ (Ended /\ Deliverable /\ adb = "ready") =>
         (pc = "failed" /\ outcome.err = "NoDevicesFound")

C12_Witness ==
  /\ rOs = "Android" /\ medium = "FS_ACCESS" /\ Len(rDevices) = 0
  /\ pc = "failed" /\ outcome.err = "NoDevicesFound"
  /\ io.caRead /\ io.listed /\ ~io.pulled

\* C13: from an empty directory, with a working toolkit, a CSR with an
\* allowed app name, Android, medium FS_ACCESS, a ready ADB client and one
\* connected device that holds the CSR and accepts what is pushed to it:
\* the exchange, once ended, has succeeded; ca.crt and
\* server.crt exist, the CA certificate on disk and the client certificate
\* signed by it were pushed to the device, whose id is the deviceId returned.
C13_EndToEnd ==
  (/\ SetupDone /\ last.case = "missing" /\ now = 0
   /\ opensslInstalled /\ Deliverable
   /\ rOs = "Android" /\ medium = "FS_ACCESS"
   /\ Len(rDevices) = 1 /\ Matching = {1}
   /\ adb = "ready" /\ pushOK
   /\ Ended) =>
    /\ pc = "done" /\ outcome.err = "none"
    /\ certExists(dir.caCert) /\ certExists(dir.serverCert)
    /\ dir.serverCert.issuer = dir.caCert.key
    /\ io.pushes =
         {[dev |-> 1, at |-> rPath, file |-> [name |-> deviceCAcertFile,
                                contents |-> dir.caCert]],
          [dev |-> 1, at |-> rPath, file |-> [name |-> deviceClientCertFile,
                                contents |-> signedClientCert(dir, now)]]}
    /\ outcome.deviceId = <<1>>

C13_Witness ==
  /\ SetupDone /\ last.case = "missing" /\ now = 0 /\ Deliverable
  /\ rOs = "Android" /\ medium = "FS_ACCESS" /\ Matching = {1}
  /\ pc = "done" /\ outcome.deviceId = <<1>>
  /\ Cardinality(io.pushes) = 2

\* The first delivery of the exchange has been attempted and has ended.
DeliveryAttempted == io.caRead /\ pc # "deployCA"

NothingDelivered ==
  /\ io.staged = {} /\ io.written = {} /\ io.pushes = {}
  /\ ~io.listed /\ ~io.pulled

BothArtifacts ==
  {[name |-> deviceCAcertFile, contents |-> outcome.caCert],
   [name |-> deviceClientCertFile, contents |-> outcome.clientCert]}

\* C15 as claimed: with medium WWW no device is listed, pulled from or pushed
\* to and nothing is written into the app container; an exchange that
\* succeeds has staged both artifacts and returns a synthesized deviceId.
C15_Original ==
  medium = "WWW" =>
    /\ ~io.listed /\ ~io.pulled /\ io.pushes = {} /\ io.written = {}
    /\ pc = "done" => (io.staged = BothArtifacts /\ outcome.deviceId = <<"uuid">>)

\* C15 holds of the server variant.
C15_ServerVariant == impl = "server" => C15_Original

\* C16 as claimed: with medium NONE and an OS for which getTargetDeviceId
\* resolves no device, the deviceId of a successful exchange is the
\* placeholder '' or 'unknown'.
C16_Original ==
  (medium = "NONE" /\ rOs \in {"windows", "MacOS", "other"} /\ pc = "done") =>
    outcome.deviceId \in {<<"">>, <<"unknown">>}

\* What does hold: the placeholder is the deviceId when getTargetDeviceId is
\* what resolves it, with medium FS_ACCESS or in the utils variant.
C16_WhenResolved ==
  (/\ impl = "utils" \/ medium = "FS_ACCESS"
   /\ rOs \in {"windows", "MacOS", "other"} /\ pc = "done") =>
    outcome.deviceId = IF rOs = "MacOS" THEN <<"">> ELSE <<"unknown">>

\* C17: the archive and the upload run only in the server variant with
\* medium WWW and with both artifacts staged; neither step, whether it
\* succeeds or fails, changes what was staged, written or pushed, or the
\* provisioning directory.
C17_UploadFrame ==
  /\ [](pc \in {"zip", "upload"} \/ io.zipped \/ io.uploaded
          => /\ impl = "server" /\ medium = "WWW"
             /\ io.staged = BothArtifacts)
  /\ [][(pc \in {"zip", "upload"})
          => (io'.staged = io.staged /\ io'.written = io.written
                /\ io'.pushes = io.pushes /\ dir' = dir)]_vars

C17_Witness ==
  /\ pc = "failed" /\ outcome.err \in {"ArchiveFailed", "UploadFailed", "UploadTimeout"}
  /\ io.staged = BothArtifacts

\* C18: an exchange at the upload step ends: when no acknowledgement and no
\* error comes, the timer rejects it with UploadTimeout. An exchange that has
\* timed out stays rejected, also when the request completes later, and no
\* exchange is resolved with an error.
C18_UploadTerminates ==
  /\ (pc = "upload") ~> Ended
  /\ [](outcome.err = "UploadTimeout" => pc = "failed")
  /\ [](pc = "done" => outcome.err = "none")

C18_Witness ==
  /\ pc = "failed" /\ outcome.err = "UploadTimeout"
  /\ io.zipped /\ io.uploaded

\* C19: loadSecureServerConfig yields a configuration only on a provider
\* whose setup succeeded, and fails without one when the setup failed; the
\* configuration holds server.key, server.crt and ca.crt as they are on
\* disk, with requestCert and rejectUnauthorized both true.
C19_SecureServerConfig ==
  last.op = "loadSecureServerConfig" =>
    /\ last.ok =>
         /\ certificateSetup = "resolved"
         /\ last.config =
              [key |-> dir.serverKey, cert |-> dir.serverCert, ca |-> dir.caCert,
               requestCert |-> TRUE, rejectUnauthorized |-> TRUE]
         /\ pathExists(dir.serverKey) /\ certExists(dir.serverCert)
         /\ certExists(dir.caCert)
    /\ ~last.ok => last.config = NoConfig
    /\ certificateSetup = "rejected" => ~last.ok

C19_Witness ==
  /\ last.op = "loadSecureServerConfig" /\ last.ok
  /\ last.config.requestCert /\ last.config.rejectUnauthorized
  /\ last.config.cert.issuer = last.config.ca.key
  /\ last.config.cert.key = last.config.key

\* C20 as claimed: when an exchange has ended, no transient file holding the
\* CSR is left.
C20_Original == Ended => io.csrFiles = {}

\* What does hold: an exchange that ends before the signing step leaves no
\* such file.
C20_BeforeSigning ==
  (Ended /\ outcome.clientCert = NoCert /\ outcome.err # "SigningFailed")
    => io.csrFiles = {}

C21_RejectedAtReadiness ==
  /\ certificateSetup = "rejected" /\ last.srvRegen
  /\ pc = "failed" /\ outcome.err = "AuthorityInvalid"

Allowed(name) == \A k \in 1..Len(name) : name[k] \in AllowedChars

C22_ReturnedNameAllowed ==
  (last.op = "extractAppNameFromCSR" /\ last.ok) =>
    /\ outcome.appName # <<>>
    /\ Allowed(outcome.appName)
    /\ outcome.appName = upToComma(trimEnd(subject.rest))

\* C23: santitizeString applied to its own result returns it unchanged; a
\* text with white space added in front or at the end, or with carriage
\* returns added anywhere, has the same result as the text itself; and the
\* per-device check finds a match when the device's copy of the CSR is the
\* presented CSR with such additions.
C23_SanitizeInvariance ==
  /\ \A x \in {rCsr} \cup {rDevices[i].csr : i \in 1..Len(rDevices)} :
       santitizeString(santitizeString(x)) = santitizeString(x)
  /\ \A y \in Variants(rCsr) :
       /\ santitizeString(y) = santitizeString(rCsr)
       /\ \A z \in Variants(y) : santitizeString(z) = santitizeString(rCsr)
  /\ \A i \in 1..Len(rDone) :
       (rDone[i] # Pending /\ rDevices[i].csr \in Variants(rCsr)) =>
         rDone[i].isMatch
  /\ (rResult.state = "resolved" /\ rDevices[1].csr \in Variants(rCsr)) =>
       rResult.id = 1

C23_Witness ==
  /\ rResult = Resolved(1)
  /\ Len(rCsr) = 2 /\ santitizeString(rCsr) = rCsr
  /\ rDevices[1].csr = WithCR(rCsr, 1)

\* The file called name has been placed: staged, written into the app
\* directory, or acknowledged by a device.
Placed(name) ==
  \E f \in io.staged \cup io.written \cup {p.file : p \in io.pushes} :
    f.name = name

AfterCADelivery ==
  pc \in {"sign", "deployClient", "extract", "resolve", "zip", "upload", "done"}

AfterClientDelivery == pc \in {"extract", "resolve", "zip", "upload", "done"}

\* C25 as claimed: once the delivery of sonarCA.crt (of device.crt) has
\* completed successfully the file has been placed, by a finished write or
\* an acknowledged push; no push fails without the exchange being rejected.
C25_Original ==
  /\ AfterCADelivery => Placed(deviceCAcertFile)
  /\ AfterClientDelivery => Placed(deviceClientCertFile)
  /\ io.lost # {} => pc = "failed"

\* What does hold: the claim for the server variant, and for the utils
\* variant wherever the file is not pushed to an iOS device.
C25_AwaitedPushes ==
  (impl = "server" \/ rOs # "iOS" \/ directWriteOK) =>
    /\ AfterCADelivery => Placed(deviceCAcertFile)
    /\ AfterClientDelivery => Placed(deviceClientCertFile)
    /\ io.lost = {} /\ io.inFlight = {}
    /\ (outcome.err = "PushFailed") => (~pushOK /\ pc = "failed")

\* The delivery of the file called name has been started and has come as
\* far as a write or a push.
Attempted(name) ==
  \/ Placed(name)
  \/ \E p \in io.inFlight \cup io.lost : p.file.name = name

\* No step of the exchange has left its mark before the step it follows.
StepOrder ==
  /\ io.caRead => certificateSetup = "resolved"
  /\ Attempted(deviceCAcertFile) => io.caRead
  /\ "signing" \in io.csrFiles =>
       (io.caRead /\ Attempted(deviceCAcertFile))
  /\ io.signed => "signing" \in io.csrFiles
  /\ Attempted(deviceClientCertFile) => io.signed
  /\ outcome.appName # <<>> => Attempted(deviceClientCertFile)
  /\ outcome.deviceId # <<>> => outcome.appName # <<>>
  /\ io.zipped => (outcome.deviceId # <<>> /\ medium = "WWW")
  /\ io.uploaded => io.zipped

\* A rejected exchange starts nothing: what changes is the completion of a
\* push or of an upload request started before.
NoLaterStep ==
  pc = "failed" =>
    /\ pc' = "failed" /\ outcome' = outcome
    /\ io'.caRead = io.caRead /\ io'.signed = io.signed
    /\ io'.csrFiles = io.csrFiles
    /\ io'.staged = io.staged /\ io'.written = io.written
    /\ io'.listed = io.listed /\ io'.pulled = io.pulled
    /\ io'.zipped = io.zipped
    /\ io'.pushes \cup io'.inFlight \cup io'.lost
         = io.pushes \cup io.inFlight \cup io.lost

\* A step that was rejected is the last one: no later step has left a mark.
FailureStops ==
  pc = "failed" =>
    /\ outcome.at \in {"idle", "awaitSetup"} => ~io.caRead
    /\ outcome.at \in {"idle", "awaitSetup", "readCA"} =>
         ~Attempted(deviceCAcertFile)
    /\ outcome.at \in {"idle", "awaitSetup", "readCA", "deployCA"} =>
         (~io.signed /\ "signing" \notin io.csrFiles)
    /\ outcome.at \in {"idle", "awaitSetup", "readCA", "deployCA", "sign"} =>
         ~Attempted(deviceClientCertFile)
    /\ outcome.at \notin {"extract", "resolve", "zip", "upload"} =>
         outcome.appName = <<>>
    /\ outcome.at \notin {"resolve", "zip", "upload"} =>
         outcome.deviceId = <<>>
    /\ outcome.at \notin {"zip", "upload"} => ~io.zipped
    /\ outcome.at # "upload" => ~io.uploaded

AllPushes == io.pushes \cup io.inFlight \cup io.lost

\* A delivery of sonarCA.crt by direct write, for a CSR whose app name can
\* be extracted, has ended, and the resolution of the deviceId (step 9)
\* has not run.
DirectDeliveryEnded ==
  /\ writesDirectly(rOs)
  /\ ~(impl = "server" /\ medium = "WWW")
  /\ extractAppNameFromCSR(subject).ok
  /\ \/ pc \in {"sign", "deployClient", "extract", "resolve"}
     \/ pc = "failed"
          /\ outcome.at \in {"deployCA", "sign", "deployClient", "extract"}

\* C26 as claimed: for iOS, windows and MacOS, when the direct write
\* succeeds nothing is enumerated or pushed; when it fails and the
\* destination does not match Application/<id>/<rest> the delivery fails
\* with UnexpectedContainerPath and nothing is enumerated or pushed; when it
\* fails and the destination matches, the target is resolved (from the
\* simulator id or by enumeration), and a delivery that completes has pushed
\* the file to that device at the path inside the container.
C26_Original ==
  DirectDeliveryEnded =>
    IF directWriteOK
      THEN ~io.listed /\ ~io.pulled /\ AllPushes = {}
           /\ Placed(deviceCAcertFile)
    ELSE IF ~matchesAppContainer(rPath, TRUE)
      THEN /\ pc = "failed" /\ outcome.at = "deployCA"
           /\ outcome.err = "UnexpectedContainerPath"
           /\ ~io.listed /\ ~io.pulled /\ AllPushes = {}
    ELSE /\ io.written = {}
         /\ simulatorIdOf(rPath) # <<>> \/ io.listed
         /\ AfterCADelivery =>
              \E p \in AllPushes :
                /\ p.file.name = deviceCAcertFile
                /\ p.at = getRelativePathInAppContainer(rPath, TRUE)
                /\ IF simulatorIdOf(rPath) # <<>>
                     THEN p.dev = simulatorIdOf(rPath)[1]
                     ELSE p.dev \in Matching

\* What does hold: the claim for iOS in both variants, and for windows and
\* MacOS in the server variant.
C26_ExceptUtilsDesktop ==
  (DirectDeliveryEnded /\ (impl = "server" \/ rOs = "iOS")) => C26_Original

\* C27: an exchange with a non-empty CSR on a desktop without the toolkit
\* emits the error notification and goes on to await the setup; when it is
\* rejected, it is rejected at the readiness step or later, by a setup that
\* was rejected, never by the notification.  With the toolkit installed
\* nothing is emitted.
C27_ToolkitNotification ==
  /\ (pc # "idle" /\ ~isEmptyRequest(rCsr)) =>
       (io.notified <=> ~opensslInstalled)
  /\ (io.notified /\ pc = "failed") =>
       /\ outcome.at # "idle"
       /\ outcome.err # "ToolkitUnavailable"
       /\ outcome.at = "awaitSetup" => certificateSetup = "rejected"

C27_Witness ==
  /\ ~opensslInstalled /\ io.notified
  /\ pc = "failed" /\ outcome.at = "awaitSetup"
  /\ outcome.err = "AuthorityInvalid" /\ ~io.caRead

\* C28: getTargetiOSDeviceId called with a destination that has a simulator
\* id (.../Devices/<id>/...) returns that id at once: no target is
\* enumerated and no per-device check (no pull) is started, whatever is
\* connected.
C28_SimulatorId ==
  (rOs = "iOS" /\ rPath = SimPath) =>
    /\ rDone = <<>>
    /\ rResult.state \in {"idle", "resolved"}
    /\ rResult.state = "resolved" => rResult.id = "SIM1"

C28_Witness ==
  /\ rOs = "iOS" /\ rPath = SimPath
  /\ Len(rDevices) = 2 /\ rDevices[1].pull = "error"
  /\ rResult.state = "resolved" /\ rDone = <<>>

C28_WitnessNoDevice ==
  /\ rOs = "iOS" /\ rPath = SimPath /\ Len(rDevices) = 0
  /\ rResult.state = "resolved"

\* The exchange is at one of the steps after the readiness step.
AtStep4To10 ==
  pc \in {"readCA", "deployCA", "sign", "deployClient", "extract", "resolve",
          "zip", "upload"}

\* C29 as claimed: no step of an exchange from the read of ca.crt to the
\* upload changes a file of the provisioning directory, server.srl included.
C29_Original == [][AtStep4To10 => dir' = dir]_vars

\* What does hold: these steps change no file but server.srl, which the
\* signing of the client certificate rewrites.
C29_ExceptSerial ==
  [][AtStep4To10 =>
       /\ [dir EXCEPT !.serverSrl = 0] = [dir' EXCEPT !.serverSrl = 0]
       /\ dir'.serverSrl # dir.serverSrl => (pc = "sign" /\ io'.signed)
    ]_vars

\* C30 as claimed: when the initialisation of the ADB client fails, no
\* bridge operation is invoked on an absent client, none lists, pulls or
\* pushes, and an exchange that needs the bridge is rejected with the error
\* of the initialisation, whether or not the failure had been recorded when
\* the operation asked for the client.
C30_Original ==
  (rOs = "Android" /\ adb # "ready") =>
    /\ ~io.absentHandle
    /\ ~io.listed /\ ~io.pulled /\ AllPushes = {}
    /\ outcome.err # "TypeError"
    /\ (pc = "failed" /\ outcome.at \in {"deployCA", "resolve"}
          /\ extractAppNameFromCSR(subject).ok) =>
         outcome.err = "AdbInitFailed"

\* What does hold: nothing is listed, pulled or pushed; the exchange is
\* rejected with the error of the initialisation in the utils variant, and
\* in the server variant when the failure was recorded before the operation
\* asked for the client.
C30_WhenRecorded ==
  (rOs = "Android" /\ adb # "ready") =>
    /\ ~io.listed /\ ~io.pulled /\ AllPushes = {}
    /\ io.absentHandle <=> outcome.err = "TypeError"
    /\ io.absentHandle => impl = "server"
    /\ (pc = "failed" /\ outcome.at \in {"deployCA", "resolve"}
          /\ extractAppNameFromCSR(subject).ok) =>
         outcome.err \in AdbErrors

(***************************************************************************)
(* Claims about partial failures, repeated resolution and the one setup.   *)
(***************************************************************************)
\* server.key is the key server.crt certifies; ca.key is the key ca.crt
\* certifies. genrsa never repeats a key, so that a key file and a certificate
\* file agree exactly when one generation run wrote both.
ServerPairMatches ==
  pathExists(dir.serverKey) /\ dir.serverCert.key = dir.serverKey

CAPairMatches ==
  pathExists(dir.caKey) => dir.caCert.key = dir.caKey

\* C31 as claimed: whenever ensureServerCertExists has completed
\* successfully, after whatever runs came before it (aborted ones included),
\* server.key and server.crt come from one generation run, and so do ca.key
\* and ca.crt.
C31_Original ==
  (SetupDone /\ last.ok) => (ServerPairMatches /\ CAPairMatches)

\* What does hold: a run that regenerated the server certificate and
\* succeeded leaves a matching server pair and a matching CA pair.
C31_WhenRegenerated ==
  (SetupDone /\ last.ok /\ last.srvRegen) =>
    /\ ServerPairMatches
    /\ pathExists(dir.caKey) /\ dir.caCert.key = dir.caKey

C31_WitnessRegenerated ==
  /\ SetupDone /\ last.ok /\ last.srvRegen /\ last.caRegen
  /\ ServerPairMatches /\ dir.caCert.key = dir.caKey

\* The devices the exchange has pushed a file to.
PushedTo == {p.dev : p \in io.pushes}

AndroidFsDone ==
  pc = "done" /\ rOs = "Android" /\ medium = "FS_ACCESS"

\* C32 as claimed: in a successful Android exchange over FS_ACCESS, with
\* the devices and their stored CSR files changing between the three
\* resolutions, both certificates were pushed to one device, and the
\* deviceId returned is the id of that device.
C32_Original ==
  AndroidFsDone =>
    /\ Cardinality(io.pushes) = 2
    /\ \A d \in PushedTo : outcome.deviceId = <<d>>

\* What does hold: when nothing changed on the devices during the
\* exchange, the three resolutions agree.
C32_WithoutChange ==
  (AndroidFsDone /\ ext = 0) =>
    /\ Cardinality(io.pushes) = 2
    /\ \A d \in PushedTo : outcome.deviceId = <<d>>

C32_WitnessWithoutChange ==
  /\ AndroidFsDone /\ ext = 0
  /\ Len(rDevices) = 2 /\ outcome.deviceId = <<2>>
  /\ PushedTo = {2}

\* ca.key, ca.crt, server.key and server.crt
AuthorityFiles == <<dir.caKey, dir.caCert, dir.serverKey, dir.serverCert>>

\* What the calls have seen of the setup agrees with its outcome: an
\* exchange past the readiness step and a loadSecureServerConfig that
\* returned saw it fulfilled, an exchange rejected at the readiness step saw
\* it rejected.
SameOutcomeObserved ==
  /\ PastReadiness => certificateSetup = "resolved"
  /\ (pc = "failed" /\ outcome.at \notin {"idle", "awaitSetup"})
       => certificateSetup = "resolved"
  /\ (pc = "failed" /\ outcome.at = "awaitSetup")
       => certificateSetup = "rejected"
  /\ (last.op = "loadSecureServerConfig" /\ last.ok)
       => certificateSetup = "resolved"

====
